---- MODULE Spec2Model ----
(***************************************************************************)
(* WeatherWise decision logic: buildWeatherContext, getRecommendation,     *)
(* getImpactScore and getBadges, as called by renderWeather.               *)
(*                                                                         *)
(* Units.  Temperatures are whole degrees Celsius and wind speeds whole    *)
(* m/s; precipitation depths are tenths of a millimetre (5 is 0.5 mm);     *)
(* visibility is whole metres.  The impact score is accumulated in units   *)
(* of 1/80 point, the common denominator of rain/10 * 12, snow/10 * 10     *)
(* and (2000 - vis) / 80, so the arithmetic is exact; IEEE-754 rounding    *)
(* error of the JavaScript doubles is not part of the model.               *)
(***************************************************************************)
EXTENDS Integers, Sequences, FiniteSets, TLC

VARIABLES api, ctx, rec, score, badges, done

\* normalizeCondition's argument and result; labelWords is the list of words
\* the argument was put together from
VARIABLES weatherMain, labelWords, category

\* pickDailyInsight's argument, the value Math.random() returns to it (the
\* numerator of a fraction over RandDen) and its result
VARIABLES insightPool, random, insight

\* The forecast cached by the page, the values the two `new Date()` reads of
\* renderHourlyUntilEndOfDay return, and what the two forecast renderers
\* produced: the items of the hourly window with the number of entries the
\* loop looked at, and the cards of the daily window
VARIABLES lastForecast, clock, hourly, daily

\* The page: the location shown last, the key the cached forecast was loaded
\* for, the hidden flags of the two forecast boxes, the requests in flight
\* with the continuation that waits for each, and the label of the meta line
VARIABLES lastLocation, forecastLoadedFor, hourlyHidden, dailyHidden, tasks,
          metaLabel

\* Bookkeeping about the page: the coordinates of the location whose label is
\* on display, the clicks so far, and the forecast requests started for the
\* key of lastLocation since that key last changed that did not fail
VARIABLES labelled, clicks, forecastFetches

\* the pure functions that were called
VARIABLES called

coreVars == <<api, ctx, rec, score, badges, done>>
normVars == <<weatherMain, labelWords, category>>
insightVars == <<insightPool, random, insight>>
windowVars == <<lastForecast, clock, hourly, daily>>
appVars == <<lastLocation, forecastLoadedFor, hourlyHidden, dailyHidden, tasks,
            metaLabel, labelled, clicks, forecastFetches>>
extVars == <<normVars, insightVars, windowVars, appVars, called>>

vars == <<coreVars, extVars>>

-----------------------------------------------------------------------------
(* JavaScript values: undefined, null, NaN, numbers, strings, objects.     *)

Undefined == [type |-> "undefined"]
Null == [type |-> "null"]
NaN == [type |-> "nan"]
Num(n) == [type |-> "number", val |-> n]
Str(s) == [type |-> "string", chars |-> s]

IsNullish(v) == v = Undefined \/ v = Null

\* a ?? b
Coalesce(v, d) == IF IsNullish(v) THEN d ELSE v

\* typeof v === "number" (NaN is a number to typeof)
TypeofNumber(v) == v.type = "number" \/ v.type = "nan"

\* Number(v): undefined -> NaN, null -> +0, a number -> itself
ToNumber(v) ==
  CASE v.type = "number" -> v
    [] v.type = "null" -> Num(0)
    [] OTHER -> NaN

\* Number.isNaN(v)
NumberIsNaN(v) == v.type = "nan"

\* Relational operators against a numeric literal k.  The left operand is
\* converted with ToNumber first, as the abstract relational comparison does;
\* every comparison with NaN is false.
Le(v, k) == LET n == ToNumber(v) IN n.type = "number" /\ n.val <= k
Lt(v, k) == LET n == ToNumber(v) IN n.type = "number" /\ n.val < k
Ge(v, k) == LET n == ToNumber(v) IN n.type = "number" /\ n.val >= k
Gt(v, k) == LET n == ToNumber(v) IN n.type = "number" /\ n.val > k

\* o?.f : undefined when o is nullish or has no such property
OptGet(o, f) ==
  IF IsNullish(o) THEN Undefined
  ELSE IF o.type = "object" /\ f \in DOMAIN o.props THEN o.props[f]
  ELSE Undefined

\* o?.[0] on an array value
OptFirst(a) ==
  IF IsNullish(a) THEN Undefined
  ELSE IF a.type = "array" /\ Len(a.items) > 0 THEN a.items[1]
  ELSE Undefined

Obj(p) == [type |-> "object", props |-> p]
Arr(s) == [type |-> "array", items |-> s]

-----------------------------------------------------------------------------
(* Strings are sequences of characters.                                    *)

UpperCase == <<"A","B","C","D","E","F","G","H","I","J","K","L","M",
               "N","O","P","Q","R","S","T","U","V","W","X","Y","Z">>
LowerCase == <<"a","b","c","d","e","f","g","h","i","j","k","l","m",
               "n","o","p","q","r","s","t","u","v","w","x","y","z">>

ToLowerChar(c) ==
  IF \E i \in 1..Len(UpperCase) : UpperCase[i] = c
  THEN LowerCase[CHOOSE i \in 1..Len(UpperCase) : UpperCase[i] = c]
  ELSE c

\* String.prototype.toLowerCase
toLowerCase(s) == [i \in 1..Len(s) |-> ToLowerChar(s[i])]

\* String.prototype.includes
includes(s, sub) ==
  \E i \in 0..(Len(s) - Len(sub)) :
    \A j \in 1..Len(sub) : s[i + j] = sub[j]

kwThunder == <<"t","h","u","n","d","e","r">>
kwDrizzle == <<"d","r","i","z","z","l","e">>
kwRain == <<"r","a","i","n">>
kwSnow == <<"s","n","o","w">>
kwCloud == <<"c","l","o","u","d">>
kwClear == <<"c","l","e","a","r">>

\* (weatherMain || "") : undefined, null and the empty string are falsy
OrEmpty(v) == IF v.type = "string" THEN v.chars ELSE <<>>

\* Variant: a label without keyword counts as clear
normalizeCondition_DefaultClear(label) ==
  LET m == toLowerCase(OrEmpty(label)) IN
  IF includes(m, kwThunder) THEN "thunderstorm"
  ELSE IF includes(m, kwDrizzle) \/ includes(m, kwRain) THEN "rain"
  ELSE IF includes(m, kwSnow) THEN "snow"
  ELSE IF includes(m, kwCloud) THEN "clouds"
  ELSE "clear"

\* Variant: the snow test comes before the rain test
normalizeCondition_SnowFirst(label) ==
  LET m == toLowerCase(OrEmpty(label)) IN
  IF includes(m, kwThunder) THEN "thunderstorm"
  ELSE IF includes(m, kwSnow) THEN "snow"
  ELSE IF includes(m, kwDrizzle) \/ includes(m, kwRain) THEN "rain"
  ELSE IF includes(m, kwCloud) THEN "clouds"
  ELSE IF includes(m, kwClear) THEN "clear"
  ELSE "other"

normalizeCondition(label) ==
  LET m == toLowerCase(OrEmpty(label)) IN
  IF includes(m, kwThunder) THEN "thunderstorm"
  ELSE IF includes(m, kwDrizzle) \/ includes(m, kwRain) THEN "rain"
  ELSE IF includes(m, kwSnow) THEN "snow"
  ELSE IF includes(m, kwCloud) THEN "clouds"
  ELSE IF includes(m, kwClear) THEN "clear"
  ELSE "other"

Conditions == {"clear", "clouds", "rain", "snow", "thunderstorm", "other"}

-----------------------------------------------------------------------------
(* buildWeatherContext                                                     *)

\* conditionMain || "Unknown"
OrUnknown(v) ==
  IF v.type = "string" /\ Len(v.chars) > 0 THEN v
  ELSE Str(<<"U","n","k","n","o","w","n">>)

\* description || ""
OrEmptyStr(v) == IF v.type = "string" THEN v ELSE Str(<<>>)

buildWeatherContext(a) ==
  LET conditionMain == OptGet(OptFirst(OptGet(a, "weather")), "main")
      description == OptGet(OptFirst(OptGet(a, "weather")), "description")
  IN [ condition |-> normalizeCondition(conditionMain),
       rawConditionMain |-> OrUnknown(conditionMain),
       description |-> OrEmptyStr(description),
       temp |-> OptGet(OptGet(a, "main"), "temp"),
       feelsLike |-> OptGet(OptGet(a, "main"), "feels_like"),
       windSpeed |-> OptGet(OptGet(a, "wind"), "speed"),
       cloudPct |-> Coalesce(OptGet(OptGet(a, "clouds"), "all"), Null),
       visibilityM |-> Coalesce(OptGet(a, "visibility"), Null),
       rainMm1h |-> Coalesce(OptGet(OptGet(a, "rain"), "1h"), Null),
       snowMm1h |-> Coalesce(OptGet(OptGet(a, "snow"), "1h"), Null) ]

-----------------------------------------------------------------------------
(* getRecommendation.  A branch is the returned object; texts are the      *)
(* source's, written in ASCII and without the leading icon glyph.          *)

Branch(s, r, p) == [summary |-> s, recommendation |-> r, insightPool |-> p]

BranchThunderstorm ==
  Branch("Gewitter moeglich",
         "Drinnen bleiben und offene Flaechen meiden. Sicherheit geht vor!",
         << "Heute gewinnt definitiv der Plan B.",
            "Laptop statt Laufrunde - kein schlechter Deal.",
            "Bei Blitz und Donner lieber nicht experimentieren." >>)

BranchWinterGear ==
  Branch("Kalt & verschneit",
         "Warme Winterstiefel, Muetze und Schal sind Pflicht. Vorsicht bei Glaette!",
         << "Heute ist definitiv Wintermodus angesagt.",
            "Rutschfest schlaegt stylish - jeden Tag.",
            "Langsam gehen ist das neue schnell." >>)

BranchSleet ==
  Branch("Schnee / Schneeregen",
         "Wasserfeste Jacke und mehrere warme Schichten einplanen.",
         << "Schichten sind heute dein Superpower.",
            "Handschuhe zahlen sich immer aus.",
            "Draussen sieht's besser aus als es sich anfuehlt." >>)

BranchColdRain ==
  Branch("Kuehl & regnerisch",
         "Regenjacke plus warme Schicht (Hoodie oder Pullover) empfohlen.",
         << "Heute ist kein Hoodie-Tag. Heute ist Hoodie-PLUS-Regenjacke.",
            "Schirme sind nett - Jacken sind sicherer.",
            "Pfuetzen-Management: aktiviert." >>)

BranchWarmRain ==
  Branch("Warm & regnerisch",
         "Leichte Regenjacke reicht. Ein Wechselshirt kann aber helfen.",
         << "Regen ist heute eher ein Stimmungstest.",
            "Kurz nass ist auch nass - leider.",
            "Ein trockener Ruecken ist Gold wert." >>)

BranchStandardRain ==
  Branch("Regnerisch",
         "Regenjacke oder Schirm nicht vergessen!",
         << "Heute lieber wasserfest denken.",
            "Ein Schirm ist ein guter Sidekick.",
            "Draussen ist's ein bisschen filmisch." >>)

BranchWindyCold ==
  Branch("Windig & kuehl",
         "Winddichte Jacke und warme Kleidung sind heute sinnvoll.",
         << "Heute gewinnt die winddichte Schicht.",
            "Muetze: total underrated.",
            "Der Wind macht aus kuehl ganz schnell kalt." >>)

BranchWindy ==
  Branch("Windig",
         "Eine leichte, aber winddichte Schicht lohnt sich heute.",
         << "Frisur heute: optional.",
            "Wind ist das neue Cardio.",
            "Kleine Extraschicht, grosser Effekt." >>)

BranchHeat ==
  Branch("Heiss & sonnig",
         "Viel trinken, Mittagssonne meiden, Sonnencreme verwenden!",
         << "Heute ist Schatten pure Strategie.",
            "Wasser first - immer.",
            "Die Sonne ist heute definitiv der Chef." >>)

BranchDeceptivelyCold ==
  Branch("Klar, aber kalt",
         "Warme Jacke einpacken. Die Sonne taeuscht!",
         << "Sonne bedeutet nicht automatisch warm.",
            "Klarer Himmel, klare Jackenwahl.",
            "Heute zaehlt die Basisschicht." >>)

BranchPleasant ==
  Branch("Freundlich & trocken",
         "Perfekte Bedingungen! Leichte Jacke nach Gefuehl.",
         << "Perfektes Wetter fuer einen Spaziergang.",
            "Heute lohnt sich frische Luft besonders.",
            "Kurz raus - macht den Kopf frei." >>)

BranchCoolCloudy ==
  Branch("Kuehl & bewoelkt",
         "Warme Schicht einplanen, besonders morgens und abends.",
         << "Wolken koennen kalt aussehen - und kalt sein.",
            "Heute passt ein Hoodie ziemlich gut.",
            "Komfort schlaegt Outfit-Drama." >>)

BranchMildCloudy ==
  Branch("Bewoelkt",
         "Unkompliziert: normale Alltagskleidung, optional leichte Jacke.",
         << "Heute ist ein solider Tag.",
            "Wetter: unaufgeregt. Du auch.",
            "Einfach machen." >>)

BranchFallback ==
  Branch("Wechselhaft",
         "Praktisch bleiben: Schichten tragen und flexibel planen.",
         << "Heute ist Flexibilitaet eine echte Tugend.",
            "Plan mit Puffer ist ein guter Plan.",
            "Schichten sind dein bester Freund." >>)

\* Variant: t < 0
RuleSnow_Strict(t) == IF Lt(t, 0) THEN BranchWinterGear ELSE BranchSleet

\* 2) condition === "snow"
RuleSnow(t) == IF Le(t, 0) THEN BranchWinterGear ELSE BranchSleet

\* 3) condition === "rain"
RuleRain(t) ==
  IF Le(t, 6) THEN BranchColdRain
  ELSE IF Ge(t, 22) THEN BranchWarmRain
  ELSE BranchStandardRain

\* 4) w >= 10
RuleWind(t) == IF Le(t, 10) THEN BranchWindyCold ELSE BranchWindy

\* 5) condition === "clear"
RuleClear(t) ==
  IF Ge(t, 28) THEN BranchHeat
  ELSE IF Le(t, 5) THEN BranchDeceptivelyCold
  ELSE BranchPleasant

\* 6) condition === "clouds"
RuleClouds(t) == IF Le(t, 8) THEN BranchCoolCloudy ELSE BranchMildCloudy

\* Variant: the wind rule is checked before the condition rules
getRecommendation_WindFirst(c) ==
  LET t == ToNumber(c.temp)
      w == ToNumber(c.windSpeed)
  IN IF Ge(w, 10) THEN RuleWind(t)
     ELSE IF c.condition = "thunderstorm" THEN BranchThunderstorm
     ELSE IF c.condition = "snow" THEN RuleSnow(t)
     ELSE IF c.condition = "rain" THEN RuleRain(t)
     ELSE IF c.condition = "clear" THEN RuleClear(t)
     ELSE IF c.condition = "clouds" THEN RuleClouds(t)
     ELSE BranchFallback

\* Variant: the wind guard is written !(w < 10)
getRecommendation_NotLess(c) ==
  LET t == ToNumber(c.temp)
      w == ToNumber(c.windSpeed)
  IN IF c.condition = "thunderstorm" THEN BranchThunderstorm
     ELSE IF c.condition = "snow" THEN RuleSnow(t)
     ELSE IF c.condition = "rain" THEN RuleRain(t)
     ELSE IF ~Lt(w, 10) THEN RuleWind(t)
     ELSE IF c.condition = "clear" THEN RuleClear(t)
     ELSE IF c.condition = "clouds" THEN RuleClouds(t)
     ELSE BranchFallback

getRecommendation(c) ==
  LET t == ToNumber(c.temp)
      w == ToNumber(c.windSpeed)
  IN IF c.condition = "thunderstorm" THEN BranchThunderstorm
     ELSE IF c.condition = "snow" THEN RuleSnow(t)
     ELSE IF c.condition = "rain" THEN RuleRain(t)
     ELSE IF Ge(w, 10) THEN RuleWind(t)
     ELSE IF c.condition = "clear" THEN RuleClear(t)
     ELSE IF c.condition = "clouds" THEN RuleClouds(t)
     ELSE BranchFallback

-----------------------------------------------------------------------------
(* getImpactScore.  The running score is held in units of 1/80 point.      *)

Max(a, b) == IF a >= b THEN a ELSE b
Min(a, b) == IF a <= b THEN a ELSE b

\* Variant: a value above max falls back to min
clamp_WrapLow(n, min, max) ==
  IF n < min THEN min ELSE IF n > max THEN min ELSE n

clamp(n, min, max) == Max(min, Min(max, n))

\* n whole points, and n tenths of a point, in units of 1/80 point
Pt(n) == n * 80
TenthPt(n) == n * 8

\* Math.round: the nearest integer, halves rounded up, of s/80
MathRound(s) == (s + 40) \div 80

\* if (rain > 0) score += clamp(rain * 12, 10, 45)
RainTerm(rain) ==
  IF Gt(rain, 0) THEN clamp(TenthPt(rain.val * 12), Pt(10), Pt(45)) ELSE 0

\* if (snow > 0) score += clamp(snow * 10, 10, 40)
SnowTerm(snow) ==
  IF Gt(snow, 0) THEN clamp(TenthPt(snow.val * 10), Pt(10), Pt(40)) ELSE 0

\* if (!Number.isNaN(w) && w > 6) score += clamp((w - 6) * 4, 0, 25)
WindTerm(w) ==
  IF ~NumberIsNaN(w) /\ Gt(w, 6)
  THEN clamp(Pt((w.val - 6) * 4), Pt(0), Pt(25)) ELSE 0

\* if (!Number.isNaN(t) && t >= 28) score += clamp((t - 27) * 4, 4, 25)
HeatTerm(t) ==
  IF ~NumberIsNaN(t) /\ Ge(t, 28)
  THEN clamp(Pt((t.val - 27) * 4), Pt(4), Pt(25)) ELSE 0

\* if (!Number.isNaN(t) && t <= 2) score += clamp((3 - t) * 5, 5, 30)
ColdTerm(t) ==
  IF ~NumberIsNaN(t) /\ Le(t, 2)
  THEN clamp(Pt((3 - t.val) * 5), Pt(5), Pt(30)) ELSE 0

\* if (typeof vis === "number" && vis > 0 && vis < 2000)
\*   score += clamp((2000 - vis) / 80, 5, 25)
VisTerm(vis) ==
  IF TypeofNumber(vis) /\ Gt(vis, 0) /\ Lt(vis, 2000)
  THEN clamp(2000 - vis.val, Pt(5), Pt(25)) ELSE 0

\* Variant: the rounded sum is returned without the final clamp
getImpactScore_NoClamp(c) ==
  LET t == ToNumber(c.temp)
      w == ToNumber(c.windSpeed)
      rain == Coalesce(c.rainMm1h, Num(0))
      snow == Coalesce(c.snowMm1h, Num(0))
  IN MathRound(RainTerm(rain) + SnowTerm(snow) + WindTerm(w)
                 + HeatTerm(t) + ColdTerm(t) + VisTerm(c.visibilityM))

\* Variant: the snow term is added only when there is no rain (else if)
getImpactScore_ElseIfSnow(c) ==
  LET t == ToNumber(c.temp)
      w == ToNumber(c.windSpeed)
      rain == Coalesce(c.rainMm1h, Num(0))
      snow == Coalesce(c.snowMm1h, Num(0))
      s1 == RainTerm(rain)
      s2 == IF Gt(rain, 0) THEN s1 ELSE s1 + SnowTerm(snow)
  IN clamp(MathRound(s2 + WindTerm(w) + HeatTerm(t) + ColdTerm(t)
                       + VisTerm(c.visibilityM)), 0, 100)

getImpactScore(c) ==
  LET t == ToNumber(c.temp)
      w == ToNumber(c.windSpeed)
      rain == Coalesce(c.rainMm1h, Num(0))
      snow == Coalesce(c.snowMm1h, Num(0))
      s0 == 0
      s1 == s0 + RainTerm(rain)
      s2 == s1 + SnowTerm(snow)
      s3 == s2 + WindTerm(w)
      s4 == s3 + HeatTerm(t)
      s5 == s4 + ColdTerm(t)
      s6 == s5 + VisTerm(c.visibilityM)
  IN clamp(MathRound(s6), 0, 100)

-----------------------------------------------------------------------------
(* getBadges                                                               *)

Badge(text, tone) == [text |-> text, tone |-> tone]

BadgeHeavyRain == Badge("Starker Regen", "danger")
BadgeWet == Badge("Nass", "warn")
BadgeIceRisk == Badge("Glattegefahr", "danger")
BadgeSnow == Badge("Schnee", "warn")
BadgePoorVisibility == Badge("Sicht schlecht", "warn")
BadgeVeryWindy == Badge("Sehr windig", "warn")
BadgeHeat == Badge("Hitze", "warn")
BadgeFrost == Badge("Frost", "warn")
BadgeVeryCloudy == Badge("Sehr bewoelkt", "neutral")

\* if (rain >= 2) ... else if (rain > 0) ...
RainBadges(rain) ==
  IF Ge(rain, 20) THEN <<BadgeHeavyRain>>
  ELSE IF Gt(rain, 0) THEN <<BadgeWet>>
  ELSE <<>>

\* Variant: the second test is a plain if
SnowBadges_Both(snow, t) ==
  (IF Gt(snow, 0) /\ Le(t, 1) THEN <<BadgeIceRisk>> ELSE <<>>)
    \o (IF Gt(snow, 0) THEN <<BadgeSnow>> ELSE <<>>)

\* if (snow > 0 && t <= 1) ... else if (snow > 0) ...
SnowBadges(snow, t) ==
  IF Gt(snow, 0) /\ Le(t, 1) THEN <<BadgeIceRisk>>
  ELSE IF Gt(snow, 0) THEN <<BadgeSnow>>
  ELSE <<>>

VisBadges(vis) ==
  IF TypeofNumber(vis) /\ Lt(vis, 1000) THEN <<BadgePoorVisibility>> ELSE <<>>

WindBadges(w) ==
  IF ~NumberIsNaN(w) /\ Ge(w, 10) THEN <<BadgeVeryWindy>> ELSE <<>>

HeatBadges(t) ==
  IF ~NumberIsNaN(t) /\ Ge(t, 30) THEN <<BadgeHeat>> ELSE <<>>

FrostBadges(t) ==
  IF ~NumberIsNaN(t) /\ Le(t, 0) THEN <<BadgeFrost>> ELSE <<>>

CloudBadges(cloudPct) ==
  IF TypeofNumber(cloudPct) /\ Ge(cloudPct, 85)
  THEN <<BadgeVeryCloudy>> ELSE <<>>

getBadges(c) ==
  LET t == ToNumber(c.temp)
      w == ToNumber(c.windSpeed)
      rain == Coalesce(c.rainMm1h, Num(0))
      snow == Coalesce(c.snowMm1h, Num(0))
      vis == c.visibilityM
  IN RainBadges(rain) \o SnowBadges(snow, t) \o VisBadges(vis)
       \o WindBadges(w) \o HeatBadges(t) \o FrostBadges(t)
       \o CloudBadges(c.cloudPct)

-----------------------------------------------------------------------------
(* Input domains.                                                          *)

TempBelow == 4      \* lowest temperature is -TempBelow degrees
MaxTemp == 34       \* highest temperature, degrees
MaxWind == 13       \* highest wind speed, m/s
MaxRainMm == 5      \* deepest rain and snow, whole mm
MaxVisK == 11       \* visibility grid reaches 200 * MaxVisK metres

NoProps == [x \in {} |-> Undefined]

chUnknown == Str(<<"U","n","k","n","o","w","n">>)

\* A context as buildWeatherContext lays it out; the display-only fields
\* (rawConditionMain, description, feelsLike) do not reach the consumers.
Ctx(cond, temp, wind, cloud, vis, rain, snow) ==
  [ condition |-> cond, rawConditionMain |-> chUnknown,
    description |-> Str(<<>>), temp |-> temp, feelsLike |-> temp,
    windSpeed |-> wind, cloudPct |-> cloud, visibilityM |-> vis,
    rainMm1h |-> rain, snowMm1h |-> snow ]

Absent == {Undefined, Null}

TempValues == Absent \cup {Num(t) : t \in (0 - TempBelow)..MaxTemp}
WindValues == Absent \cup {Num(w) : w \in 0..MaxWind}
RainValues == {Null} \cup {Num(0), Num(5), Num(19)}
                \cup {Num(10 * k) : k \in 1..MaxRainMm}
VisValues == {Null} \cup {Num(v) : v \in {0, 1, 999, 1999, 5000}}
               \cup {Num(200 * k) : k \in 1..MaxVisK}

CoarseTemps == {Undefined, Num(0 - TempBelow), Num(-1), Num(15), Num(MaxTemp)}
CoarseWinds == {Undefined, Num(3), Num(MaxWind)}
CoarseRains == {Null, Num(0), Num(5), Num(10 * MaxRainMm)}
CoarseVis == {Null, Num(1), Num(5000)}

BadgeTemps == Absent \cup {Num(t) : t \in {-2, -1, 0, 1, 2, 29, 30, MaxTemp}}
BadgeWinds == Absent \cup {Num(9), Num(10), Num(12)}
BadgeRains == {Null, Num(0), Num(5), Num(19), Num(20), Num(30)}
BadgeSnows == {Null, Num(0), Num(5)}
BadgeVis == {Null, Num(0), Num(500), Num(999), Num(1000)}
BadgeClouds == {Null, Num(0), Num(84), Num(85), Num(100)}

\* Payloads of the current-weather API
chRain == Str(<<"R","a","i","n">>)
chSnow == Str(<<"S","n","o","w">>)
chClear == Str(<<"C","l","e","a","r">>)
chClouds == Str(<<"C","l","o","u","d","s">>)
chMist == Str(<<"M","i","s","t">>)
chThunderstorm == Str(<<"T","h","u","n","d","e","r","s","t","o","r","m">>)

PayloadLabels == {Undefined, chRain, chSnow, chClear, chClouds, chMist,
                  chThunderstorm}
PayloadTemps == Absent \cup {Num(-1), Num(15), Num(30)}
PayloadWinds == Absent \cup {Num(3), Num(12)}
PayloadRains == {Undefined, Num(5)}
PayloadVis == {Undefined, Num(500)}
PayloadClouds == {Undefined, Num(90)}

Payload(label, temp, wind, cloud, vis, rain, snow) ==
  Obj([ weather |-> Arr(<<Obj([main |-> label, description |-> label])>>),
        main |-> Obj([temp |-> temp, feels_like |-> temp]),
        wind |-> Obj([speed |-> wind]),
        clouds |-> Obj([all |-> cloud]),
        visibility |-> vis,
        rain |-> Obj([1h |-> rain]),
        snow |-> Obj([1h |-> snow]) ])

EmptyPayload == Obj(NoProps)

-----------------------------------------------------------------------------
(* renderWeather: the context is built from the payload and handed to the  *)
(* three consumers, none of which depends on another's result.             *)

NotBuilt == [type |-> "notbuilt"]

\* normalizeCondition not in use
NormIdle ==
  /\ weatherMain = Undefined
  /\ labelWords = <<>>
  /\ category = "other"

\* pickDailyInsight not in use
InsightIdle ==
  /\ insightPool = Undefined
  /\ random = 0
  /\ insight = Undefined

\* No window rendered: both grids are empty
NoWindows ==
  /\ hourly = [items |-> <<>>, visited |-> 0]
  /\ daily = <<>>

\* The forecast part of the page not in use
WindowIdle ==
  /\ lastForecast = Null
  /\ clock = <<0, 0>>
  /\ NoWindows

chDash == <<"-">>

\* The page as the script leaves it after loading
AppIdle ==
  /\ lastLocation = Null
  /\ forecastLoadedFor = Null
  /\ hourlyHidden = TRUE
  /\ dailyHidden = TRUE
  /\ tasks = {}
  /\ metaLabel = Str(chDash)
  /\ labelled = Null
  /\ clicks = 0
  /\ forecastFetches = 0

\* Nothing but the weather card in use
ExtIdle ==
  /\ NormIdle
  /\ InsightIdle
  /\ WindowIdle
  /\ AppIdle
  /\ called = {}

DoBuildWeatherContext ==
  /\ ctx = NotBuilt
  /\ ctx' = buildWeatherContext(api)
  /\ UNCHANGED <<api, rec, score, badges, done>>
  /\ UNCHANGED extVars

DoGetRecommendation ==
  /\ ctx # NotBuilt
  /\ "rec" \notin done
  /\ rec' = getRecommendation(ctx)
  /\ done' = done \cup {"rec"}
  /\ UNCHANGED <<api, ctx, score, badges>>
  /\ UNCHANGED extVars

DoGetImpactScore ==
  /\ ctx # NotBuilt
  /\ "score" \notin done
  /\ score' = getImpactScore(ctx)
  /\ done' = done \cup {"score"}
  /\ UNCHANGED <<api, ctx, rec, badges>>
  /\ UNCHANGED extVars

DoGetBadges ==
  /\ ctx # NotBuilt
  /\ "badges" \notin done
  /\ badges' = getBadges(ctx)
  /\ done' = done \cup {"badges"}
  /\ UNCHANGED <<api, ctx, rec, score>>
  /\ UNCHANGED extVars

NoResults ==
  /\ rec = Undefined
  /\ score = 0
  /\ badges = <<>>
  /\ done = {}

\* No payload, an empty one, one without conditions, or a full one whose
\* leaves may be absent
InitPayload ==
  \/ api \in {Undefined, Null, EmptyPayload, Obj([weather |-> Arr(<<>>)])}
  \/ \E l \in PayloadLabels, t \in PayloadTemps, w \in PayloadWinds,
        c \in PayloadClouds, v \in PayloadVis, r \in PayloadRains,
        s \in PayloadRains :
       api = Payload(l, t, w, c, v, r, s)

Init ==
  /\ InitPayload
  /\ ctx = NotBuilt
  /\ NoResults
  /\ ExtIdle

Next ==
  \/ DoBuildWeatherContext
  \/ DoGetRecommendation
  \/ DoGetImpactScore
  \/ DoGetBadges

Spec == Init /\ [][Next]_vars

\* The consumers on contexts drawn directly
\* getRecommendation reads condition, temp and windSpeed only
InitRec ==
  /\ api = Undefined
  /\ \E c \in Conditions, t \in TempValues, w \in WindValues :
       ctx = Ctx(c, t, w, Null, Null, Null, Null)
  /\ NoResults
  /\ ExtIdle
NextRec == DoGetRecommendation
SpecRec == InitRec /\ [][NextRec]_vars

\* getImpactScore reads temp, windSpeed, rain, snow and visibility: rain and
\* visibility fine with the rest coarse, snow fine with the rest coarse,
\* temperature and wind fine with the rest coarse
InitScore ==
  /\ api = Undefined
  /\ \/ \E t \in CoarseTemps, w \in CoarseWinds, v \in VisValues,
           r \in RainValues, s \in CoarseRains :
          ctx = Ctx("other", t, w, Null, v, r, s)
     \/ \E t \in CoarseTemps, w \in CoarseWinds, v \in CoarseVis,
           r \in CoarseRains, s \in RainValues :
          ctx = Ctx("other", t, w, Null, v, r, s)
     \/ \E t \in TempValues, w \in WindValues, v \in CoarseVis,
           r \in CoarseRains, s \in {Null, Num(10 * MaxRainMm)} :
          ctx = Ctx("other", t, w, Null, v, r, s)
  /\ NoResults
  /\ ExtIdle
NextScore == DoGetImpactScore
SpecScore == InitScore /\ [][NextScore]_vars

InitBadges ==
  /\ api = Undefined
  /\ \E t \in BadgeTemps, w \in BadgeWinds, c \in BadgeClouds,
        v \in BadgeVis, r \in BadgeRains, s \in BadgeSnows :
       ctx = Ctx("other", t, w, c, v, r, s)
  /\ NoResults
  /\ ExtIdle
NextBadges == DoGetBadges
SpecBadges == InitBadges /\ [][NextBadges]_vars

TypeOK ==
  /\ done \subseteq {"rec", "score", "badges"}
  /\ score \in Int

-----------------------------------------------------------------------------
(* Properties of getRecommendation, checked under SpecRec.                 *)

RecDone == "rec" \in done

IsWindy(c) == Ge(c.windSpeed, 10)

\* C1: the rules are tried in the order thunderstorm, snow, rain, wind >= 10,
\* clear, clouds, fallback and the first match wins.  A thunderstorm, snow or
\* rain context gets a branch of its condition whatever the wind speed; a
\* clear, clouds or other context with windSpeed >= 10 gets a wind branch.
C1_RulePriority ==
  RecDone =>
    /\ ctx.condition = "thunderstorm" => rec = BranchThunderstorm
    /\ ctx.condition = "snow" => rec \in {BranchWinterGear, BranchSleet}
    /\ ctx.condition = "rain" =>
         rec \in {BranchColdRain, BranchWarmRain, BranchStandardRain}
    /\ (ctx.condition \in {"clear", "clouds", "other"} /\ IsWindy(ctx)) =>
         rec \in {BranchWindyCold, BranchWindy}

\* A thunderstorm with strong wind was recommended on
C1_Witness ==
  /\ RecDone
  /\ ctx.condition = "thunderstorm"
  /\ ctx.windSpeed = Num(12)
  /\ rec = BranchThunderstorm

\* The decision table over whole-degree temperatures, each rule's cut points
\* written as the integer intervals they separate.
TableBranch(cond, t, windy) ==
  CASE cond = "thunderstorm" -> BranchThunderstorm
    [] cond = "snow" /\ t < 1 -> BranchWinterGear
    [] cond = "snow" /\ t > 0 -> BranchSleet
    [] cond = "rain" /\ t < 7 -> BranchColdRain
    [] cond = "rain" /\ t \in 7..21 -> BranchStandardRain
    [] cond = "rain" /\ t > 21 -> BranchWarmRain
    [] cond \in {"clear", "clouds", "other"} /\ windy /\ t < 11 ->
         BranchWindyCold
    [] cond \in {"clear", "clouds", "other"} /\ windy /\ t > 10 ->
         BranchWindy
    [] cond = "clear" /\ ~windy /\ t > 27 -> BranchHeat
    [] cond = "clear" /\ ~windy /\ t < 6 -> BranchDeceptivelyCold
    [] cond = "clear" /\ ~windy /\ t \in 6..27 -> BranchPleasant
    [] cond = "clouds" /\ ~windy /\ t < 9 -> BranchCoolCloudy
    [] cond = "clouds" /\ ~windy /\ t > 8 -> BranchMildCloudy
    [] cond = "other" /\ ~windy -> BranchFallback

\* C2: for every condition and every whole-degree temperature of a range
\* that holds each threshold and its neighbours, the branch is the one of the
\* decision table; a temperature equal to a threshold takes the branch listed
\* first (snow at 0 winter gear, rain at 6 cold rain and at 22 warm rain,
\* wind at 10 windy-cold, clear at 28 heat and at 5 deceptively cold, clouds
\* at 8 cool-cloudy).
C2_DecisionTable ==
  (RecDone /\ ctx.temp.type = "number") =>
    LET t == ctx.temp.val
        cond == ctx.condition
        windy == IsWindy(ctx)
    IN /\ rec = TableBranch(cond, t, windy)
       /\ (cond = "snow" /\ t = 0) => rec = BranchWinterGear
       /\ (cond = "rain" /\ t = 6) => rec = BranchColdRain
       /\ (cond = "rain" /\ t = 22) => rec = BranchWarmRain
       /\ (cond # "thunderstorm" /\ windy /\ t = 10
             /\ cond \notin {"snow", "rain"}) => rec = BranchWindyCold
       /\ (cond = "clear" /\ ~windy /\ t = 28) => rec = BranchHeat
       /\ (cond = "clear" /\ ~windy /\ t = 5) => rec = BranchDeceptivelyCold
       /\ (cond = "clouds" /\ ~windy /\ t = 8) => rec = BranchCoolCloudy

\* Snow at exactly 0 degrees was recommended on
C2_Witness ==
  /\ RecDone
  /\ ctx.condition = "snow"
  /\ ctx.temp = Num(0)
  /\ rec = BranchWinterGear

AllBranches ==
  {BranchThunderstorm, BranchWinterGear, BranchSleet, BranchColdRain,
   BranchWarmRain, BranchStandardRain, BranchWindyCold, BranchWindy,
   BranchHeat, BranchDeceptivelyCold, BranchPleasant, BranchCoolCloudy,
   BranchMildCloudy, BranchFallback}

\* C3: getRecommendation is total.  Every context, one with absent
\* temperature and wind and condition other included, gets one branch with a
\* summary, a recommendation and three insight phrases; the fallback branch
\* is returned exactly when the condition is other and windSpeed is not >= 10.
C3_Total ==
  RecDone =>
    /\ rec \in AllBranches
    /\ rec.summary # ""
    /\ rec.recommendation # ""
    /\ Len(rec.insightPool) = 3
    /\ rec = BranchFallback <=> (ctx.condition = "other" /\ ~IsWindy(ctx))

\* A context with nothing but the condition other was recommended on
C3_Witness ==
  /\ RecDone
  /\ ctx.condition = "other"
  /\ ctx.temp = Undefined
  /\ ctx.windSpeed = Undefined
  /\ rec = BranchFallback

-----------------------------------------------------------------------------
(* Properties of getImpactScore, checked under SpecScore.                  *)

ScoreDone == "score" \in done

\* C4: the impact score of every context is an integer from 0 to 100.
C4_ScoreRange == ScoreDone => score \in 0..100

\* Rain, snow, wind, cold and visibility terms all at their caps (165 points
\* before the final clamp)
C4_Witness ==
  /\ ScoreDone
  /\ ctx.rainMm1h = Num(10 * MaxRainMm)
  /\ ctx.snowMm1h = Num(10 * MaxRainMm)
  /\ ctx.windSpeed = Num(MaxWind)
  /\ ctx.temp = Num(0 - TempBelow)
  /\ ctx.visibilityM = Num(1)
  /\ RainTerm(ctx.rainMm1h) + SnowTerm(ctx.snowMm1h) + WindTerm(ctx.windSpeed)
       + ColdTerm(ctx.temp) + VisTerm(ctx.visibilityM) > Pt(100)
  /\ score = 100

\* Depths from 0 to MaxRainMm mm, in tenths
Depths == 0..(10 * MaxRainMm)

\* C5: the score never decreases when rain (or snow) gets deeper and the
\* other fields stay: for depths r1 <= r2 between 0 and 5 mm,
\* score(r1) <= score(r2), from 0 to the smallest positive depth and up to
\* the final clamp.
C5_MonotonicPrecipitation ==
  ScoreDone =>
    LET r1 == Coalesce(ctx.rainMm1h, Num(0)).val
        s1 == Coalesce(ctx.snowMm1h, Num(0)).val
    IN /\ \A r2 \in Depths :
            r1 <= r2 =>
              score <= getImpactScore([ctx EXCEPT !.rainMm1h = Num(r2)])
       /\ \A s2 \in Depths :
            s1 <= s2 =>
              score <= getImpactScore([ctx EXCEPT !.snowMm1h = Num(s2)])

\* A dry context was scored, and a tenth of a millimetre of rain would
\* raise its score by the 10 points of the lower clamp
C5_Witness ==
  /\ ScoreDone
  /\ ctx.rainMm1h = Num(0)
  /\ score + 10 = getImpactScore([ctx EXCEPT !.rainMm1h = Num(1)])

\* Visibilities compared with the scored one, metres
VisProbes == {0, 1, 2} \cup {100 * k : k \in 1..(2 * MaxVisK)}

\* C6: the score never decreases when visibility gets worse and the other
\* fields stay: for known visibilities 0 <= v1 <= v2, score(v1) >= score(v2),
\* v1 = 0 against v2 = 1 and values on both sides of 2000 included.
C6_MonotonicVisibility ==
  (ScoreDone /\ ctx.visibilityM.type = "number") =>
    \A v2 \in VisProbes :
      ctx.visibilityM.val <= v2 =>
        score >= getImpactScore([ctx EXCEPT !.visibilityM = Num(v2)])

\* The additive model of the score, in units of 1/80 point: each term of
\* RefTerms is its formula cut to its range, and is there only under its guard
RefTerms == {"rain", "snow", "wind", "heat", "cold", "visibility"}

RefCut(x, lo, hi) == IF x < lo THEN lo ELSE IF x > hi THEN hi ELSE x

RefContribution(name, c) ==
  LET t == ToNumber(c.temp)
      w == ToNumber(c.windSpeed)
      r == Coalesce(c.rainMm1h, Num(0)).val
      s == Coalesce(c.snowMm1h, Num(0)).val
      v == c.visibilityM
  IN CASE name = "rain" ->
            IF r > 0 THEN RefCut(r * 96, 800, 3600) ELSE 0
       [] name = "snow" ->
            IF s > 0 THEN RefCut(s * 80, 800, 3200) ELSE 0
       [] name = "wind" ->
            IF w.type = "number" /\ w.val > 6
            THEN RefCut((w.val - 6) * 320, 0, 2000) ELSE 0
       [] name = "heat" ->
            IF t.type = "number" /\ t.val >= 28
            THEN RefCut((t.val - 27) * 320, 320, 2000) ELSE 0
       [] name = "cold" ->
            IF t.type = "number" /\ t.val <= 2
            THEN RefCut((3 - t.val) * 400, 400, 2400) ELSE 0
       [] name = "visibility" ->
            IF v.type = "number" /\ v.val > 0 /\ v.val < 2000
            THEN RefCut(2000 - v.val, 400, 2000) ELSE 0

RECURSIVE RefSum(_, _)
RefSum(names, c) ==
  IF names = {} THEN 0
  ELSE LET n == CHOOSE x \in names : TRUE
       IN RefContribution(n, c) + RefSum(names \ {n}, c)

\* The whole number of points nearest to s/80, a half going up
RefRound(s) == CHOOSE n \in 0..190 : 80 * n - 40 <= s /\ s < 80 * n + 40

RefScore(c) == RefCut(RefRound(RefSum(RefTerms, c)), 0, 100)

ExampleScoreCtx ==
  Ctx("other", Num(-1), Num(3), Null, Num(5000), Num(0), Num(0))

\* C7: the score is the sum of the six separately clamped contributions
\* (rain, snow, wind above 6 m/s, heat from 28, cold up to 2, visibility
\* inside (0, 2000)), each present only under its guard, rounded and clamped
\* to 0..100; terms that occur together all add, and temperature -1, wind 3,
\* no rain, no snow, visibility 5000 scores 20.
C7_AdditiveModel ==
  ScoreDone =>
    /\ score = RefScore(ctx)
    /\ ctx = ExampleScoreCtx => score = 20

\* The example context was scored
C7_Witness ==
  /\ ScoreDone
  /\ ctx = ExampleScoreCtx
  /\ score = 20

-----------------------------------------------------------------------------
(* Properties of the context builder and its consumers, checked under Spec *)

CtxBuilt == ctx # NotBuilt
BadgesDone == "badges" \in done

\* The payload has no field at all: an empty object or no payload
NoFields == api \in {Undefined, EmptyPayload}

\* What the consumers return on the context of a payload without fields
NeutralResults ==
  /\ ScoreDone => score = 0
  /\ BadgesDone => badges = <<>>
  /\ RecDone => rec = BranchFallback

\* C8 as stated: a payload missing every field yields condition other, a
\* temperature and a wind that are not numbers, precipitation depths of 0 and
\* the absent marker for cloud and visibility; the score of that context is
\* 0, its badges are empty and its recommendation is the fallback branch.
C8_Original ==
  (NoFields /\ CtxBuilt) =>
    /\ ctx.condition = "other"
    /\ ctx.temp.type # "number"
    /\ ctx.windSpeed.type # "number"
    /\ ctx.rainMm1h = Num(0)
    /\ ctx.snowMm1h = Num(0)
    /\ ctx.cloudPct = Null
    /\ ctx.visibilityM = Null
    /\ NeutralResults

\* C8 amended: a payload missing every field yields condition other,
\* undefined temperature and wind, which the consumers read as not-a-number,
\* and the absent marker null for the precipitation depths as for cloud and
\* visibility, the consumers reading an absent depth as 0; the score of that
\* context is 0, its badges are empty and its recommendation is the fallback
\* branch.
C8_EmptyPayload ==
  (NoFields /\ CtxBuilt) =>
    /\ ctx.condition = "other"
    /\ ctx.temp = Undefined /\ ToNumber(ctx.temp) = NaN
    /\ ctx.windSpeed = Undefined /\ ToNumber(ctx.windSpeed) = NaN
    /\ ctx.rainMm1h = Null /\ Coalesce(ctx.rainMm1h, Num(0)) = Num(0)
    /\ ctx.snowMm1h = Null /\ Coalesce(ctx.snowMm1h, Num(0)) = Num(0)
    /\ ctx.cloudPct = Null
    /\ ctx.visibilityM = Null
    /\ NeutralResults

\* The empty object went through the builder and all three consumers
C8_Witness ==
  /\ api = EmptyPayload
  /\ CtxBuilt
  /\ done = {"rec", "score", "badges"}
  /\ score = 0
  /\ badges = <<>>
  /\ rec = BranchFallback

PayloadTemp == OptGet(OptGet(api, "main"), "temp")
PayloadWind == OptGet(OptGet(api, "wind"), "speed")

Range(seq) == {seq[i] : i \in 1..Len(seq)}

\* Branches reached through a comparison of the temperature that held
TempGuardedBranches ==
  {BranchWinterGear, BranchColdRain, BranchWarmRain, BranchWindyCold,
   BranchHeat, BranchDeceptivelyCold, BranchCoolCloudy}

\* C9: a temperature (a wind speed) that the payload lacks, missing or null,
\* contributes nothing: the score has no heat or cold (no wind) term, there
\* is no heat, frost or ice-risk (very-windy) badge, and the recommendation is
\* no branch reached through a comparison of that field.
C9_AbsentNoContribution ==
  /\ (CtxBuilt /\ IsNullish(PayloadTemp)) =>
       /\ ScoreDone =>
            score = getImpactScore([ctx EXCEPT !.temp = Num(15)])
       /\ BadgesDone =>
            Range(badges) \cap {BadgeHeat, BadgeFrost, BadgeIceRisk} = {}
       /\ RecDone => rec \notin TempGuardedBranches
  /\ (CtxBuilt /\ IsNullish(PayloadWind)) =>
       /\ ScoreDone =>
            score = getImpactScore([ctx EXCEPT !.windSpeed = Num(0)])
       /\ BadgesDone => BadgeVeryWindy \notin Range(badges)
       /\ RecDone => rec \notin {BranchWindyCold, BranchWindy}

-----------------------------------------------------------------------------
(* Properties of getBadges, checked under SpecBadges.                      *)

BadgeOrder ==
  << BadgeHeavyRain, BadgeWet, BadgeIceRisk, BadgeSnow, BadgePoorVisibility,
     BadgeVeryWindy, BadgeHeat, BadgeFrost, BadgeVeryCloudy >>

\* The threshold condition of each badge on the numeric reading of the fields
BadgeHolds(b, c) ==
  CASE b = BadgeHeavyRain -> Ge(c.rainMm1h, 20)
    [] b = BadgeWet -> Gt(c.rainMm1h, 0) /\ Lt(c.rainMm1h, 20)
    [] b = BadgeIceRisk -> Gt(c.snowMm1h, 0) /\ Le(c.temp, 1)
    [] b = BadgeSnow -> Gt(c.snowMm1h, 0) /\ ~Le(c.temp, 1)
    [] b = BadgePoorVisibility ->
         c.visibilityM.type = "number" /\ c.visibilityM.val < 1000
    [] b = BadgeVeryWindy -> Ge(c.windSpeed, 10)
    [] b = BadgeHeat -> Ge(c.temp, 30)
    [] b = BadgeFrost -> Le(c.temp, 0)
    [] b = BadgeVeryCloudy ->
         c.cloudPct.type = "number" /\ c.cloudPct.val >= 85

ExampleBadgeCtx ==
  Ctx("other", Num(-2), Num(12), Null, Num(500), Num(30), Num(0))

\* C10: the badges are the badges of the fixed rule order whose threshold
\* condition holds, in that order, at most one per rule: heavy rain and wet
\* never both, ice risk and snow never both; rain 3, snow 0, visibility 500,
\* wind 12, temperature -2 gives heavy rain, poor visibility, very windy,
\* frost.
C10_BadgeOrder ==
  BadgesDone =>
    LET Present(b) == BadgeHolds(b, ctx)
    IN /\ badges = SelectSeq(BadgeOrder, Present)
       /\ ~({BadgeHeavyRain, BadgeWet} \subseteq Range(badges))
       /\ ~({BadgeIceRisk, BadgeSnow} \subseteq Range(badges))
       /\ ctx = ExampleBadgeCtx =>
            badges = << BadgeHeavyRain, BadgePoorVisibility,
                        BadgeVeryWindy, BadgeFrost >>

\* The example context got its badges
C10_Witness ==
  /\ BadgesDone
  /\ ctx = ExampleBadgeCtx
  /\ badges = << BadgeHeavyRain, BadgePoorVisibility, BadgeVeryWindy,
                 BadgeFrost >>

-----------------------------------------------------------------------------
(* normalizeCondition on labels of any letter case, checked under SpecNorm *)

MaxWords == 2       \* a label is put together from at most MaxWords words

kwStorm == <<"s","t","o","r","m">>
kwHaze == <<"h","a","z","e">>
kwBlank == <<" ">>

\* The keywords and three words that hold none
Keywords == {kwThunder, kwDrizzle, kwRain, kwSnow, kwCloud, kwClear}
Words == Keywords \cup {kwStorm, kwHaze, kwBlank}

ToUpperChar(c) ==
  IF \E i \in 1..Len(LowerCase) : LowerCase[i] = c
  THEN UpperCase[CHOOSE i \in 1..Len(LowerCase) : LowerCase[i] = c]
  ELSE c

CaseStyles == {"lower", "upper", "title", "mixed"}

ApplyCase(style, s) ==
  [i \in 1..Len(s) |->
     IF \/ style = "upper"
        \/ style = "title" /\ i = 1
        \/ style = "mixed" /\ i % 2 = 0
     THEN ToUpperChar(s[i]) ELSE s[i]]

RECURSIVE Concat(_)
Concat(ws) == IF ws = <<>> THEN <<>> ELSE Head(ws) \o Concat(Tail(ws))

WordLists == UNION {[1..n -> Words] : n \in 0..MaxWords}

InitNorm ==
  /\ api = Undefined /\ ctx = NotBuilt /\ NoResults
  /\ \/ weatherMain \in {Undefined, Null} /\ labelWords = <<>>
     \/ \E ws \in WordLists, style \in CaseStyles :
          /\ labelWords = ws
          /\ weatherMain = Str(ApplyCase(style, Concat(ws)))
  /\ category = "other"
  /\ InsightIdle
  /\ WindowIdle
  /\ AppIdle
  /\ called = {}

DoNormalizeCondition ==
  /\ "normalizeCondition" \notin called
  /\ category' = normalizeCondition(weatherMain)
  /\ called' = called \cup {"normalizeCondition"}
  /\ UNCHANGED <<weatherMain, labelWords>>
  /\ UNCHANGED <<coreVars, insightVars, windowVars, appVars>>

NextNorm == DoNormalizeCondition
SpecNorm == InitNorm /\ [][NextNorm]_vars

Normalized == "normalizeCondition" \in called

\* The category each keyword stands for, and the rank of each category
KeywordCategory(kw) ==
  CASE kw = kwThunder -> "thunderstorm"
    [] kw \in {kwDrizzle, kwRain} -> "rain"
    [] kw = kwSnow -> "snow"
    [] kw = kwCloud -> "clouds"
    [] kw = kwClear -> "clear"

CategoryRank(cat) ==
  CASE cat = "thunderstorm" -> 1
    [] cat = "rain" -> 2
    [] cat = "snow" -> 3
    [] cat = "clouds" -> 4
    [] cat = "clear" -> 5
    [] cat = "other" -> 6

\* The categories of the keywords among the words of the label
PresentCategories ==
  {KeywordCategory(labelWords[i]) :
     i \in {j \in 1..Len(labelWords) : labelWords[j] \in Keywords}}

\* C11: normalizeCondition is total onto the six categories with a fixed
\* priority: a label of any letter case gets the category of the keyword of
\* highest priority it contains, in the order thunderstorm > rain (drizzle or
\* rain) > snow > clouds > clear, and an absent label, the empty string and a
\* label without keyword get other.
C11_NormalizePriority ==
  Normalized =>
    /\ category \in Conditions
    /\ \A c \in PresentCategories : CategoryRank(category) <= CategoryRank(c)
    /\ category \in PresentCategories \cup {"other"}
    /\ PresentCategories = {} => category = "other"
    /\ PresentCategories # {} => category # "other"

\* An upper-case label holding snow before rain was normalized to rain
C11_Witness ==
  /\ Normalized
  /\ labelWords = <<kwSnow, kwRain>>
  /\ weatherMain = Str(<<"S","N","O","W","R","A","I","N">>)
  /\ category = "rain"

-----------------------------------------------------------------------------
(* pickDailyInsight, checked under SpecInsight.  Math.random() returns     *)
(* random / RandDen, a value of [0, 1).                                     *)

RandDen == 8        \* Math.random() takes the values 0/RandDen .. (RandDen-1)/RandDen
MaxPool == 5        \* longest pool

Text(s) == [type |-> "string", text |-> s]

\* a[i] for a 0-based index: undefined outside the array
ArrGet(items, i) ==
  IF i \in 0..(Len(items) - 1) THEN Text(items[i + 1]) ELSE Undefined

\* Math.floor(Math.random() * length)
randomIndex(r, length) == (r * length) \div RandDen

\* Variant: Math.round in place of Math.floor
pickDailyInsight_Round(pool, r) ==
  IF pool.type # "array" \/ Len(pool.items) = 0 THEN Text("")
  ELSE ArrGet(pool.items,
              (2 * r * Len(pool.items) + RandDen) \div (2 * RandDen))

pickDailyInsight(pool, r) ==
  IF pool.type # "array" \/ Len(pool.items) = 0 THEN Text("")
  ELSE ArrGet(pool.items, randomIndex(r, Len(pool.items)))

RandomValues == 0..(RandDen - 1)

PoolPhrases == <<"a", "b", "c", "d", "e", "f", "g", "h">>

\* The pools of the branches, pools of 0..MaxPool phrases, and values that
\* are no array
InitInsight ==
  /\ api = Undefined /\ ctx = NotBuilt /\ NoResults
  /\ NormIdle
  /\ WindowIdle
  /\ AppIdle
  /\ \/ insightPool \in {Undefined, Null, Str(<<"a">>)}
     \/ \E b \in {BranchThunderstorm, BranchSleet, BranchWindy,
                  BranchPleasant, BranchFallback} :
          insightPool = Arr(b.insightPool)
     \/ \E n \in 0..MaxPool : insightPool = Arr(SubSeq(PoolPhrases, 1, n))
  /\ random \in RandomValues
  /\ insight = Undefined
  /\ called = {}

DoPickDailyInsight ==
  /\ "pickDailyInsight" \notin called
  /\ insight' = pickDailyInsight(insightPool, random)
  /\ called' = called \cup {"pickDailyInsight"}
  /\ UNCHANGED <<insightPool, random>>
  /\ UNCHANGED <<coreVars, normVars, windowVars, appVars>>

NextInsight == DoPickDailyInsight
SpecInsight == InitInsight /\ [][NextInsight]_vars

Picked == "pickDailyInsight" \in called

IsFilledPool(p) == p.type = "array" /\ Len(p.items) > 0

\* C12: for a non-empty pool and every value of the random source in [0, 1)
\* the result is an element of the pool, the index computed for it lying in
\* 0..length-1; every element of the pool is a possible result; for an empty
\* pool or a value that is no sequence the result is the empty string.
C12_InsightFromPool ==
  Picked =>
    /\ IsFilledPool(insightPool) =>
         LET items == insightPool.items IN
         /\ randomIndex(random, Len(items)) \in 0..(Len(items) - 1)
         /\ insight.type = "string"
         /\ \E i \in 1..Len(items) : insight = Text(items[i])
         /\ \A i \in 1..Len(items) :
              \E r \in RandomValues :
                pickDailyInsight(insightPool, r) = Text(items[i])
    /\ ~IsFilledPool(insightPool) => insight = Text("")

\* The largest random value picked the last of the three fallback phrases
C12_Witness ==
  /\ Picked
  /\ insightPool = Arr(BranchFallback.insightPool)
  /\ random = RandDen - 1
  /\ insight = Text(BranchFallback.insightPool[3])

-----------------------------------------------------------------------------
(* The forecast windows.  A Date is a count of ticks, DayLen ticks to the   *)
(* local day, the last tick of a day being its 23:59:59.999.  A timestamp   *)
(* of the forecast is a string naming a day and a tick of that day.          *)

DayLen == 3         \* ticks in a day
MaxHours == 4       \* longest hourly series
MaxDrift == 1       \* ticks between the two clock reads of one rendering

IsoTime(d, h) == [type |-> "string", date |-> d, hour |-> h]
IsoDate(d) == [type |-> "string", date |-> d]

\* new Date(iso) for a timestamp with a time of day
NewDate(iso) == iso.date * DayLen + iso.hour

\* end.setHours(23, 59, 59, 999)
setHoursEndOfDay(d) == (d \div DayLen) * DayLen + (DayLen - 1)

\* a[i], 0-based: undefined past the end
At(a, i) == IF i \in 0..(Len(a) - 1) THEN a[i + 1] ELSE Undefined

\* v || []
OrEmptyArray(v) == IF v.type = "array" THEN v.items ELSE <<>>

meteoCodeToTag(code) ==
  IF code = Num(0) THEN "Klar"
  ELSE IF code \in {Num(1), Num(2), Num(3)} THEN "Wolkig"
  ELSE IF code \in {Num(45), Num(48)} THEN "Nebel"
  ELSE IF code \in {Num(51), Num(53), Num(55), Num(56), Num(57)} THEN "Niesel"
  ELSE IF code \in {Num(61), Num(63), Num(65), Num(66), Num(67)} THEN "Regen"
  ELSE IF code \in {Num(71), Num(73), Num(75), Num(77)} THEN "Schnee"
  ELSE IF code \in {Num(80), Num(81), Num(82)} THEN "Schauer"
  ELSE IF code \in {Num(95), Num(96), Num(99)} THEN "Gewitter"
  ELSE "Wechselhaft"

\* Variant: an entry at the instant now is skipped too
IsBeforeNow_OrAt(t, now) == t <= now

\* if (t < now) continue
IsBeforeNow(t, now) == t < now

\* if (t > end) break
IsPastEnd(t, end) == t > end

\* The arrays renderHourlyUntilEndOfDay reads from fx
HourlyArrays(fx) ==
  LET h == OptGet(fx, "hourly") IN
  [ times |-> OrEmptyArray(OptGet(h, "time")),
    temp |-> OrEmptyArray(OptGet(h, "temperature_2m")),
    pop |-> OrEmptyArray(OptGet(h, "precipitation_probability")),
    wind |-> OrEmptyArray(OptGet(h, "wind_speed_10m")),
    code |-> OrEmptyArray(OptGet(h, "weather_code")) ]

\* The loop from index i on: the items pushed and the entries looked at
RECURSIVE HourlyLoop(_, _, _, _, _)
HourlyLoop(a, i, now, end, items) ==
  IF ~(i < Len(a.times)) THEN [items |-> items, visited |-> i]
  ELSE LET t == NewDate(a.times[i + 1]) IN
    IF IsBeforeNow(t, now) THEN HourlyLoop(a, i + 1, now, end, items)
    ELSE IF IsPastEnd(t, end) THEN [items |-> items, visited |-> i + 1]
    ELSE HourlyLoop(a, i + 1, now, end,
           Append(items, [ time |-> a.times[i + 1],
                           temp |-> At(a.temp, i),
                           pop |-> At(a.pop, i),
                           wind |-> At(a.wind, i),
                           tag |-> meteoCodeToTag(At(a.code, i)) ]))

\* c holds the values of the two clock reads
renderHourlyUntilEndOfDay(fx, c) ==
  HourlyLoop(HourlyArrays(fx), 0, c[1], setHoursEndOfDay(c[2]), <<>>)

\* Weather codes, known and unknown
HourCodes == <<Num(0), Num(2), Num(45), Num(53), Num(61), Num(4), Num(75),
               Num(80), Num(99), Num(100)>>

Ticks == 0..(2 * DayLen - 1)

\* The chronologically ordered series of up to MaxHours timestamps over two
\* days
OrderedSeries ==
  UNION { { ts \in [1..n -> Ticks] : \A i \in 1..(n - 1) : ts[i] <= ts[i + 1] }
          : n \in 0..MaxHours }

\* A forecast whose hourly part holds the timestamps ts, the parallel arrays
\* being `short` entries shorter and the codes starting at offset off
HourlyForecast(ts, short, off) ==
  LET n == Len(ts)
      m == IF n >= short THEN n - short ELSE 0
  IN Obj([ hourly |-> Obj([
       time |-> Arr([i \in 1..n |->
                       IsoTime(ts[i] \div DayLen, ts[i] % DayLen)]),
       temperature_2m |-> Arr([i \in 1..m |-> Num(100 + i)]),
       precipitation_probability |-> Arr([i \in 1..m |-> Num(10 * i)]),
       wind_speed_10m |-> Arr([i \in 1..m |-> Num(20 + i)]),
       weather_code |->
         Arr([i \in 1..m |-> HourCodes[((i + off) % Len(HourCodes)) + 1]]) ]) ])

ClockReads ==
  { c \in Ticks \X (0..(2 * DayLen - 1 + MaxDrift)) :
      c[1] <= c[2] /\ c[2] <= c[1] + MaxDrift }

InitHourly ==
  /\ api = Undefined /\ ctx = NotBuilt /\ NoResults
  /\ NormIdle
  /\ InsightIdle
  /\ AppIdle
  /\ \/ lastForecast \in {Null, Obj(NoProps), Obj([hourly |-> Obj(NoProps)])}
     \/ \E ts \in OrderedSeries, short \in 0..1, off \in 0..1 :
          lastForecast = HourlyForecast(ts, short, off)
  /\ clock \in ClockReads
  /\ NoWindows
  /\ called = {}

DoRenderHourlyUntilEndOfDay ==
  /\ "renderHourlyUntilEndOfDay" \notin called
  /\ hourly' = renderHourlyUntilEndOfDay(lastForecast, clock)
  /\ called' = called \cup {"renderHourlyUntilEndOfDay"}
  /\ UNCHANGED <<lastForecast, clock, daily>>
  /\ UNCHANGED <<coreVars, normVars, insightVars, appVars>>

NextHourly == DoRenderHourlyUntilEndOfDay
SpecHourly == InitHourly /\ [][NextHourly]_vars

HourlyRendered == "renderHourlyUntilEndOfDay" \in called

\* The 1-based indices 1..n in order
Indices(n) == [i \in 1..n |-> i]

\* C13: for a chronologically ordered hourly series the window holds exactly
\* the entries whose timestamp t has now <= t <= 23:59:59.999 of the day the
\* end of day is taken from, both bounds included, in the order of the
\* series, each item made of the values the parallel arrays hold at the
\* entry's own index; the loop passes over the entries before now and looks
\* at no entry after the first one past the end of the day.
C13_HourlyWindow ==
  HourlyRendered =>
    LET a == HourlyArrays(lastForecast)
        n == Len(a.times)
        now == clock[1]
        end == (clock[2] \div DayLen) * DayLen + DayLen - 1
        T(i) == a.times[i].date * DayLen + a.times[i].hour
        InWindow(i) == now <= T(i) /\ T(i) <= end
        kept == SelectSeq(Indices(n), InWindow)
        Late == {i \in 1..n : T(i) > end /\ T(i) >= now}
        Own(arr, i) == IF i <= Len(arr) THEN arr[i] ELSE Undefined
    IN /\ Len(hourly.items) = Len(kept)
       /\ \A j \in 1..Len(kept) :
            LET i == kept[j] IN
            /\ hourly.items[j].time = a.times[i]
            /\ hourly.items[j].temp = Own(a.temp, i)
            /\ hourly.items[j].pop = Own(a.pop, i)
            /\ hourly.items[j].wind = Own(a.wind, i)
            /\ hourly.items[j].tag = meteoCodeToTag(Own(a.code, i))
       /\ hourly.visited =
            IF Late = {} THEN n ELSE CHOOSE i \in Late : \A k \in Late : i <= k

\* One tick before the end of the first day, of a series of four entries, one
\* before now, one at now, one at the end of the day and one after it, the
\* window holds the second and the third and the loop stopped at the fourth
C13_Witness ==
  /\ HourlyRendered
  /\ clock = <<DayLen - 2, DayLen - 2>>
  /\ Len(HourlyArrays(lastForecast).times) = 4
  /\ hourly.visited = 4
  /\ Len(hourly.items) = 2
  /\ hourly.items[1].time = IsoTime(0, DayLen - 2)
  /\ hourly.items[2].time = IsoTime(0, DayLen - 1)
  /\ hourly.items[2].temp = Num(103)
  /\ hourly.items[2].tag = "Niesel"

-----------------------------------------------------------------------------
(* renderDaily7, checked under SpecDaily.  Temperatures and wind speeds of  *)
(* the daily series are in tenths of a unit, the cards show whole units.    *)

MaxDays == 9        \* longest daily series

Weekdays == <<"Do.", "Fr.", "Sa.", "So.", "Mo.", "Di.", "Mi.">>

\* toLocaleDateString("de-DE", {weekday, day, month}) of new Date(iso):
\* day 0 is a Thursday
formatWeekdayDE(iso) ==
  [type |-> "string", weekday |-> Weekdays[(iso.date % 7) + 1],
   day |-> iso.date]

\* Math.round(v) of a value in tenths: Math.round(undefined) is NaN,
\* Math.round(null) is 0, halves go up
MathRoundTenths(v) ==
  LET x == ToNumber(v) IN
  IF x.type = "number" THEN Num((x.val + 5) \div 10) ELSE x

\* a.slice(0, end)
SliceFromStart(a, end) == SubSeq(a, 1, Min(Len(a), end))

\* The arrays renderDaily7 reads from fx
DailyArrays(fx) ==
  LET dd == OptGet(fx, "daily") IN
  [ time |-> OrEmptyArray(OptGet(dd, "time")),
    tmin |-> OrEmptyArray(OptGet(dd, "temperature_2m_min")),
    tmax |-> OrEmptyArray(OptGet(dd, "temperature_2m_max")),
    pop |-> OrEmptyArray(OptGet(dd, "precipitation_probability_max")),
    sum |-> OrEmptyArray(OptGet(dd, "precipitation_sum")),
    wind |-> OrEmptyArray(OptGet(dd, "wind_speed_10m_max")),
    code |-> OrEmptyArray(OptGet(dd, "weather_code")) ]

\* The card of the entry at the 0-based index i
DailyCard(a, dt, i) ==
  [ title |-> formatWeekdayDE(dt),
    tmin |-> MathRoundTenths(At(a.tmin, i)),
    tmax |-> MathRoundTenths(At(a.tmax, i)),
    tag |-> meteoCodeToTag(At(a.code, i)),
    pop |-> Coalesce(At(a.pop, i), Num(0)),
    sum |-> Coalesce(At(a.sum, i), Num(0)),
    wind |-> MathRoundTenths(Coalesce(At(a.wind, i), Num(0))) ]

\* Variant: every entry of the series gets a card
renderDaily7_NoSlice(fx) ==
  LET a == DailyArrays(fx) IN
  [i \in 1..Len(a.time) |-> DailyCard(a, a.time[i], i - 1)]

renderDaily7(fx) ==
  LET a == DailyArrays(fx)
      first == SliceFromStart(a.time, 7)
  IN [i \in 1..Len(first) |-> DailyCard(a, first[i], i - 1)]

\* Every code meteoCodeToTag knows, codes it does not know, and null
DayCodes ==
  <<Num(0), Num(1), Num(2), Num(3), Num(45), Num(48), Num(51), Num(53),
    Num(55), Num(56), Num(57), Num(61), Num(63), Num(65), Num(66), Num(67),
    Num(71), Num(73), Num(75), Num(77), Num(80), Num(81), Num(82), Num(95),
    Num(96), Num(99), Num(4), Num(50), Num(100), Null>>

\* A forecast whose daily part holds n days, the parallel arrays being
\* `short` entries shorter and the codes starting at offset off; every third
\* day has no precipitation probability
DailyForecast(n, short, off) ==
  LET m == IF n >= short THEN n - short ELSE 0 IN
  Obj([ daily |-> Obj([
    time |-> Arr([i \in 1..n |-> IsoDate(i + off)]),
    temperature_2m_min |-> Arr([i \in 1..m |-> Num(10 * i - 56)]),
    temperature_2m_max |-> Arr([i \in 1..m |-> Num(10 * i + 25)]),
    precipitation_probability_max |->
      Arr([i \in 1..m |-> IF i % 3 = 0 THEN Null ELSE Num(10 * i)]),
    precipitation_sum |-> Arr([i \in 1..m |-> Num(i)]),
    wind_speed_10m_max |-> Arr([i \in 1..m |-> Num(7 * i + 100)]),
    weather_code |->
      Arr([i \in 1..m |-> DayCodes[((i + off) % Len(DayCodes)) + 1]]) ]) ])

InitDaily ==
  /\ api = Undefined /\ ctx = NotBuilt /\ NoResults
  /\ NormIdle
  /\ InsightIdle
  /\ AppIdle
  /\ \/ lastForecast \in {Null, Obj(NoProps), Obj([daily |-> Obj(NoProps)])}
     \/ \E n \in 0..MaxDays, short \in 0..1, off \in 0..(Len(DayCodes) - 1) :
          lastForecast = DailyForecast(n, short, off)
  /\ clock = <<0, 0>>
  /\ NoWindows
  /\ called = {}

DoRenderDaily7 ==
  /\ "renderDaily7" \notin called
  /\ daily' = renderDaily7(lastForecast)
  /\ called' = called \cup {"renderDaily7"}
  /\ UNCHANGED <<lastForecast, clock, hourly>>
  /\ UNCHANGED <<coreVars, normVars, insightVars, appVars>>

NextDaily == DoRenderDaily7
SpecDaily == InitDaily /\ [][NextDaily]_vars

DailyRendered == "renderDaily7" \in called

\* The weather-code table: the codes of each tag
TagCodes ==
  [ Klar |-> {0}, Wolkig |-> 1..3, Nebel |-> {45, 48},
    Niesel |-> {51, 53, 55, 56, 57}, Regen |-> {61, 63, 65, 66, 67},
    Schnee |-> {71, 73, 75, 77}, Schauer |-> 80..82,
    Gewitter |-> {95, 96, 99} ]

TableTag(code) ==
  IF code.type = "number" /\ \E tg \in DOMAIN TagCodes : code.val \in TagCodes[tg]
  THEN CHOOSE tg \in DOMAIN TagCodes : code.val \in TagCodes[tg]
  ELSE "Wechselhaft"

\* C14: for a daily series of n entries, none and an absent series included,
\* the daily window has exactly min(n, 7) cards, those of the first
\* min(n, 7) entries in the order of the series, each showing the day, the
\* values and the weather-code tag of its own index; it never has more than
\* 7 cards and none that the series has no entry for.
C14_DailyWindow ==
  DailyRendered =>
    LET a == DailyArrays(lastForecast)
        n == Len(a.time)
        k == IF n < 7 THEN n ELSE 7
        Own(arr, i) == IF i <= Len(arr) THEN arr[i] ELSE Undefined
        Whole(v) == IF v.type = "number" THEN Num((v.val + 5) \div 10)
                    ELSE IF v = Null THEN Num(0) ELSE NaN
        OrZero(v) == IF v \in {Undefined, Null} THEN Num(0) ELSE v
    IN /\ Len(daily) = k
       /\ Len(daily) <= 7
       /\ Len(daily) <= n
       /\ \A i \in 1..k :
            /\ daily[i].title.day = a.time[i].date
            /\ daily[i].title.weekday = Weekdays[(a.time[i].date % 7) + 1]
            /\ daily[i].tmin = Whole(Own(a.tmin, i))
            /\ daily[i].tmax = Whole(Own(a.tmax, i))
            /\ daily[i].pop = OrZero(Own(a.pop, i))
            /\ daily[i].sum = OrZero(Own(a.sum, i))
            /\ daily[i].wind = Whole(OrZero(Own(a.wind, i)))
            /\ daily[i].tag = TableTag(Own(a.code, i))

\* A series of nine days gave seven cards, the seventh being the seventh day
C14_Witness ==
  /\ DailyRendered
  /\ Len(DailyArrays(lastForecast).time) = 9
  /\ Len(daily) = 7
  /\ daily[7].title.day = 7
  /\ daily[7].tmin = Num(1)
  /\ daily[7].tag = "Niesel"

-----------------------------------------------------------------------------
(* The page, checked under SpecApp.  A handler runs to its next await in    *)
(* one step; the request it waits for is a task, and the arrival of the     *)
(* response, or of the failure, runs the rest of the handler.  Coordinates  *)
(* are in 1/100000 degree.                                                   *)

MaxClicks == 3      \* clicks and form submissions in one run

chUlm == <<"U","l","m">>
chRom == <<"R","o","m">>
chDE == <<"D","E">>
chHere == <<"A","k","t","u","e","l","l","e","r"," ",
            "S","t","a","n","d","o","r","t">>

\* Boolean(v) of a string or undefined
Truthy(v) == v.type = "string" /\ v.chars # <<>>

\* parts.join(", ")
RECURSIVE JoinComma(_)
JoinComma(parts) ==
  IF parts = <<>> THEN <<>>
  ELSE IF Len(parts) = 1 THEN parts[1].chars
  ELSE parts[1].chars \o <<",", " ">> \o JoinComma(Tail(parts))

\* [place.name, place.country].filter(Boolean).join(", ")
PlaceLabel(place) ==
  Str(JoinComma(SelectSeq(<<place.name, place.country>>, Truthy)))

\* x.toFixed(4): the number of ten-thousandths nearest to x, halves away
\* from zero
toFixed4(x) == IF x >= 0 THEN (x + 5) \div 10 ELSE 0 - ((5 - x) \div 10)

\* `${lat.toFixed(4)},${lon.toFixed(4)}`
LocationKey(lat, lon) ==
  [type |-> "string", lat4 |-> toFixed4(lat), lon4 |-> toFixed4(lon)]

\* The first result of the geocoder for each city name
PlaceUlm == [name |-> Str(chUlm), country |-> Str(chDE),
             lat |-> 4840000, lon |-> 998000]
PlaceRom == [name |-> Str(chRom), country |-> Undefined,
             lat |-> 4190000, lon |-> 1250000]
Cities == {"ulm", "rom"}
GeocodedPlace(city) == IF city = "ulm" THEN PlaceUlm ELSE PlaceRom

\* What the geocoder answers with status 200: the place, no place, or
\* something that is no array
GeocodeResults(city) ==
  {Arr(<<GeocodedPlace(city)>>), Arr(<<>>), Obj(NoProps)}

\* The position of the device: a few metres from the geocoded Ulm, with the
\* same key
Positions == {[lat |-> 4840004, lon |-> 998000]}

\* The current weather at coordinates: a cold rain in the north, a hot clear
\* sky in the south, with the name of the place or without one
WeatherAt(lat, lon, name) ==
  LET w == IF lat > 4500000
           THEN Payload(chRain, Num(5), Num(3), Num(90), Num(9000),
                        Num(12), Null)
           ELSE Payload(chClear, Num(30), Num(2), Num(0), Num(10000),
                        Null, Null)
  IN Obj([f \in DOMAIN w.props \cup {"coord", "name"} |->
            IF f = "coord" THEN Obj([lat |-> Num(lat), lon |-> Num(lon)])
            ELSE IF f = "name" THEN name
            ELSE w.props[f]])

\* The name the weather service has for coordinates, where it has one
PlaceName(lat) == IF lat > 4500000 THEN Str(chUlm) ELSE Str(chRom)
WeatherNames(lat) == {Undefined, PlaceName(lat)}

\* The forecast at coordinates
ForecastAt(lat, lon) ==
  Obj([ latitude |-> Num(lat), longitude |-> Num(lon),
        hourly |-> HourlyForecast(<<0, 1, DayLen - 1, DayLen>>, 0,
                                  lat % 2).props.hourly,
        daily |-> DailyForecast(8, 0, lat % 2).props.daily ])

\* A request in flight and what its handler keeps across the await
\* (fresh: started while lastLocation had the key it has now)
Task(id, kind, lat, lon, label, key, city) ==
  [id |-> id, kind |-> kind, lat |-> lat, lon |-> lon, label |-> label,
   key |-> key, city |-> city, fresh |-> TRUE]

\* The lowest number no request in flight carries
FreeId ==
  CHOOSE i \in 0..MaxClicks :
    /\ \A t \in tasks : t.id # i
    /\ \A j \in 0..(i - 1) : \E t \in tasks : t.id = j

TasksOf(kind) == {t \in tasks : t.kind = kind}

\* One more click, as long as the run has clicks left
Click ==
  /\ clicks < MaxClicks
  /\ clicks' = clicks + 1

\* renderWeather(a, label), Math.random() returning random / RandDen
RenderWeather(a, label) ==
  LET c == buildWeatherContext(a)
      r == getRecommendation(c)
  IN /\ api' = a
     /\ ctx' = c
     /\ rec' = r
     /\ insightPool' = Arr(r.insightPool)
     /\ insight' = pickDailyInsight(Arr(r.insightPool), random)
     /\ UNCHANGED random
     /\ metaLabel' = label
     /\ score' = getImpactScore(c)
     /\ badges' = getBadges(c)
     /\ done' = {"rec", "score", "badges"}

\* lastLocation = loc, the requests of rest staying in flight; the forecast
\* requests are counted per key
SetLastLocation(loc, rest) ==
  /\ lastLocation' = loc
  /\ IF lastLocation # Null
        /\ LocationKey(lastLocation.lat, lastLocation.lon)
             = LocationKey(loc.lat, loc.lon)
     THEN /\ tasks' = rest
          /\ UNCHANGED forecastFetches
     ELSE /\ tasks' = {[t EXCEPT !.fresh = FALSE] : t \in rest}
          /\ forecastFetches' = 0

NoRender == UNCHANGED <<coreVars, insightVars, metaLabel, labelled>>
NoForecastChange == UNCHANGED <<windowVars, forecastLoadedFor>>
NoToggle == UNCHANGED <<hourlyHidden, dailyHidden>>
NoLocationChange == UNCHANGED <<lastLocation, forecastFetches>>
NoNormalize == UNCHANGED <<normVars, called>>

\* loadByGeolocation up to `await getGeoPosition()`
StartGeolocation ==
  /\ tasks' = tasks \cup
       {Task(FreeId, "geoPosition", 0, 0, Undefined, Null, "")}
  /\ NoRender /\ NoForecastChange /\ NoToggle /\ NoLocationChange
  /\ NoNormalize

\* click on btnGeo
ClickGeo ==
  /\ Click
  /\ StartGeolocation

\* the position arrives: loadByGeolocation up to `await getWeatherByCoords`
GeoPositionOk ==
  \E t \in TasksOf("geoPosition"), pos \in Positions :
    /\ tasks' = (tasks \ {t}) \cup
         {Task(t.id, "geoWeather", pos.lat, pos.lon, Undefined, Null, "")}
    /\ NoRender /\ NoForecastChange /\ NoToggle /\ NoLocationChange
    /\ NoNormalize
    /\ UNCHANGED clicks

\* a request fails: the catch block of the handler, or none, ends it
RequestFail(kind) ==
  \E t \in TasksOf(kind) :
    /\ tasks' = tasks \ {t}
    /\ NoRender /\ NoForecastChange /\ NoToggle
    /\ UNCHANGED <<lastLocation, clicks>>
    /\ forecastFetches' =
         IF t.key # Null /\ t.fresh
         THEN forecastFetches - 1 ELSE forecastFetches
    /\ NoNormalize

GeoPositionFail ==
  /\ TasksOf("geoPosition") # {}
  /\ RequestFail("geoPosition")

\* the weather arrives: the rest of loadByGeolocation
GeoWeatherOk ==
  \E t \in TasksOf("geoWeather") : \E name \in WeatherNames(t.lat) :
    LET a == WeatherAt(t.lat, t.lon, name)
        label == Coalesce(OptGet(a, "name"), Str(chHere))
    IN /\ SetLastLocation([lat |-> t.lat, lon |-> t.lon, label |-> label],
                          tasks \ {t})
       /\ RenderWeather(a, label)
       /\ labelled' = [lat |-> t.lat, lon |-> t.lon]
       /\ NoForecastChange /\ NoToggle /\ NoNormalize
       /\ UNCHANGED clicks

GeoWeatherFail ==
  /\ TasksOf("geoWeather") # {}
  /\ RequestFail("geoWeather")

\* submit of cityForm with a city name: loadByCity up to `await geocodeCity`
SubmitCity ==
  \E city \in Cities :
    /\ Click
    /\ tasks' = tasks \cup
         {Task(FreeId, "geocode", 0, 0, Undefined, Null, city)}
    /\ NoRender /\ NoForecastChange /\ NoToggle /\ NoLocationChange
    /\ NoNormalize

\* the geocoder answers: loadByCity up to `await getWeatherByCoords`, or its
\* catch block when there is no place in the answer
GeocodeOk ==
  \E t \in TasksOf("geocode") : \E results \in GeocodeResults(t.city) :
    /\ IF results.type # "array" \/ Len(results.items) = 0
       THEN tasks' = tasks \ {t}
       ELSE LET place == results.items[1] IN
            tasks' = (tasks \ {t}) \cup
              {Task(t.id, "cityWeather", place.lat, place.lon,
                    PlaceLabel(place), Null, t.city)}
    /\ NoRender /\ NoForecastChange /\ NoToggle /\ NoLocationChange
    /\ NoNormalize
    /\ UNCHANGED clicks

GeocodeFail ==
  /\ TasksOf("geocode") # {}
  /\ RequestFail("geocode")

\* the weather arrives: the rest of loadByCity
CityWeatherOk ==
  \E t \in TasksOf("cityWeather") :
    /\ SetLastLocation([lat |-> t.lat, lon |-> t.lon, label |-> t.label],
                       tasks \ {t})
    /\ RenderWeather(WeatherAt(t.lat, t.lon, PlaceName(t.lat)), t.label)
    /\ labelled' = [lat |-> t.lat, lon |-> t.lon]
    /\ NoForecastChange /\ NoToggle /\ NoNormalize
    /\ UNCHANGED clicks

CityWeatherFail ==
  /\ TasksOf("cityWeather") # {}
  /\ RequestFail("cityWeather")

\* click on btnRefresh: refresh up to its await.  The task keeps the
\* coordinates the request was made with.
ClickRefresh ==
  /\ Click
  /\ IF lastLocation # Null
     THEN /\ tasks' = tasks \cup
               {Task(FreeId, "refreshWeather", lastLocation.lat,
                     lastLocation.lon, Undefined, Null, "")}
          /\ NoRender /\ NoForecastChange /\ NoToggle /\ NoLocationChange
          /\ NoNormalize
     ELSE StartGeolocation

\* the weather arrives: renderWeather(api, lastLocation.label)
RefreshWeatherOk ==
  \E t \in TasksOf("refreshWeather") :
    /\ tasks' = tasks \ {t}
    /\ RenderWeather(WeatherAt(t.lat, t.lon, PlaceName(t.lat)),
                     lastLocation.label)
    /\ labelled' = [lat |-> lastLocation.lat, lon |-> lastLocation.lon]
    /\ NoForecastChange /\ NoToggle /\ NoLocationChange /\ NoNormalize
    /\ UNCHANGED clicks

RefreshWeatherFail ==
  /\ TasksOf("refreshWeather") # {}
  /\ RequestFail("refreshWeather")

\* if (lastForecast && forecastLoadedFor === key) of ensureForecastLoaded
ForecastCached ==
  /\ lastForecast # Null
  /\ forecastLoadedFor = LocationKey(lastLocation.lat, lastLocation.lon)

\* ensureForecastLoaded returns without a request
EnsureReturnsAtOnce == lastLocation = Null \/ ForecastCached

\* ensureForecastLoaded up to `await getForecastOpenMeteo(...)`, called from
\* the handler of the box named kind
StartForecast(kind) ==
  /\ tasks' = tasks \cup
       {Task(FreeId, kind, lastLocation.lat, lastLocation.lon, Undefined,
             LocationKey(lastLocation.lat, lastLocation.lon), "")}
  /\ forecastFetches' = forecastFetches + 1

\* click on btnToggleHourly
ClickToggleHourly ==
  /\ Click
  /\ hourlyHidden' = ~hourlyHidden
  /\ IF ~hourlyHidden
     THEN UNCHANGED <<tasks, forecastFetches, hourly>>
     ELSE IF EnsureReturnsAtOnce
     THEN /\ hourly' = renderHourlyUntilEndOfDay(lastForecast, clock)
          /\ UNCHANGED <<tasks, forecastFetches>>
     ELSE /\ StartForecast("forecastHourly")
          /\ UNCHANGED hourly
  /\ NoRender /\ NoNormalize
  /\ UNCHANGED <<lastForecast, forecastLoadedFor, clock, daily, dailyHidden,
                 lastLocation>>

\* click on btnToggleDaily
ClickToggleDaily ==
  /\ Click
  /\ dailyHidden' = ~dailyHidden
  /\ IF ~dailyHidden
     THEN UNCHANGED <<tasks, forecastFetches, daily>>
     ELSE IF EnsureReturnsAtOnce
     THEN /\ daily' = renderDaily7(lastForecast)
          /\ UNCHANGED <<tasks, forecastFetches>>
     ELSE /\ StartForecast("forecastDaily")
          /\ UNCHANGED daily
  /\ NoRender /\ NoNormalize
  /\ UNCHANGED <<lastForecast, forecastLoadedFor, clock, hourly, hourlyHidden,
                 lastLocation>>

\* Variant: the key is made from lastLocation after the await
StoredKey_AfterAwait(t, loc) == LocationKey(loc.lat, loc.lon)

\* forecastLoadedFor = key, the key made before the await
StoredKey(t, loc) == t.key

\* the forecast arrives: the rest of ensureForecastLoaded
StoreForecast(t) ==
  /\ lastForecast' = ForecastAt(t.lat, t.lon)
  /\ forecastLoadedFor' = StoredKey(t, lastLocation)
  /\ tasks' = tasks \ {t}
  /\ NoRender /\ NoToggle /\ NoLocationChange /\ NoNormalize
  /\ UNCHANGED <<clock, clicks>>

\* ... and the rest of the hourly handler
ForecastHourlyOk ==
  \E t \in TasksOf("forecastHourly") :
    /\ StoreForecast(t)
    /\ hourly' = renderHourlyUntilEndOfDay(ForecastAt(t.lat, t.lon), clock)
    /\ UNCHANGED daily

\* ... and the rest of the daily handler
ForecastDailyOk ==
  \E t \in TasksOf("forecastDaily") :
    /\ StoreForecast(t)
    /\ daily' = renderDaily7(ForecastAt(t.lat, t.lon))
    /\ UNCHANGED hourly

\* the forecast request fails: ensureForecastLoaded and the handler end
ForecastFail ==
  \E kind \in {"forecastHourly", "forecastDaily"} :
    /\ TasksOf(kind) # {}
    /\ RequestFail(kind)

InitApp ==
  /\ api = Undefined /\ ctx = NotBuilt /\ NoResults
  /\ NormIdle
  /\ InsightIdle
  /\ lastForecast = Null
  /\ clock = <<1, 1>>
  /\ NoWindows
  /\ AppIdle
  /\ called = {}

NextApp ==
  \/ ClickGeo
  \/ GeoPositionOk
  \/ GeoPositionFail
  \/ GeoWeatherOk
  \/ GeoWeatherFail
  \/ SubmitCity
  \/ GeocodeOk
  \/ GeocodeFail
  \/ CityWeatherOk
  \/ CityWeatherFail
  \/ ClickRefresh
  \/ RefreshWeatherOk
  \/ RefreshWeatherFail
  \/ ClickToggleHourly
  \/ ClickToggleDaily
  \/ ForecastHourlyOk
  \/ ForecastDailyOk
  \/ ForecastFail

SpecApp == InitApp /\ [][NextApp]_vars

-----------------------------------------------------------------------------
(* Properties of the page, checked under SpecApp.                           *)

\* C15: whatever the interleaving of the two toggle handlers, while
\* lastLocation keeps the same location key the forecast is fetched at most
\* once: of the forecast requests started for that key since the key last
\* changed, at most one did not fail.
C15_ForecastFetchedOnce == forecastFetches <= 1

\* C16: whatever the interleaving of refresh, loadByCity and
\* loadByGeolocation, the payload on display was requested for the
\* coordinates of the location whose label is on display, and once no request
\* is pending the label on display is lastLocation.label.
C16_LabelOfPayload ==
  /\ labelled # Null =>
       /\ OptGet(OptGet(api, "coord"), "lat") = Num(labelled.lat)
       /\ OptGet(OptGet(api, "coord"), "lon") = Num(labelled.lon)
  /\ (tasks = {} /\ lastLocation # Null) => metaLabel = lastLocation.label

\* lastForecast is null exactly when forecastLoadedFor is, and else it is the
\* response to a request for coordinates whose key is forecastLoadedFor
CacheConsistent ==
  /\ (lastForecast = Null) <=> (forecastLoadedFor = Null)
  /\ lastForecast # Null =>
       forecastLoadedFor =
         LocationKey(lastForecast.props.latitude.val,
                     lastForecast.props.longitude.val)

\* A step that changes lastForecast or forecastLoadedFor is the arrival of
\* the response to a forecast request, and sets both from that request
CacheStep ==
  (lastForecast' # lastForecast \/ forecastLoadedFor' # forecastLoadedFor) =>
    \E t \in tasks :
      /\ t.key # Null
      /\ t \notin tasks'
      /\ lastForecast' = ForecastAt(t.lat, t.lon)
      /\ forecastLoadedFor' = t.key

\* C17: in every reachable state lastForecast is null exactly when
\* forecastLoadedFor is null, and otherwise lastForecast is the response
\* fetched for the coordinates whose key is forecastLoadedFor; the two change
\* only together, when a forecast request succeeds: a failed request, and a
\* call of ensureForecastLoaded with no lastLocation, leave both as they are.
C17_ForecastCache == []CacheConsistent /\ [][CacheStep]_vars

\* The forecast was loaded for Ulm and the page then moved to Rom: the cache
\* still holds the forecast of Ulm under the key of Ulm
C17_Witness ==
  /\ lastLocation # Null
  /\ lastLocation.label = PlaceLabel(PlaceRom)
  /\ lastForecast = ForecastAt(PlaceUlm.lat, PlaceUlm.lon)
  /\ forecastLoadedFor = LocationKey(PlaceUlm.lat, PlaceUlm.lon)
  /\ tasks = {}

====
